---- MODULE Spec2Model ----
(***************************************************************************)
(* Model of starsvg.canvas (StarSVGCanvas): composition of SVG documents   *)
(* on a canvas, coordinate extraction, transform derivation and the export *)
(* pipeline around the external renderer (svglib / reportlab).             *)
(*                                                                         *)
(* Text is modelled as a sequence of one-character strings, numbers read   *)
(* from text as exact rationals [n, d] with d > 0.                         *)
(***************************************************************************)
EXTENDS Integers, Sequences, FiniteSets, TLC

VARIABLES width, height, background, items, modules, renderer, tempFiles, last, probe, out

vars == <<width, height, background, items, modules, renderer, tempFiles, last, probe, out>>

canvasVars == <<width, height, background, items, modules, renderer, tempFiles, last>>

pureVars == <<probe, out>>

(***************************************************************************)
(* Bounds of the model.                                                    *)
(***************************************************************************)
MaxItems == 2

MaxScales == 2

(***************************************************************************)
(* Program constants.                                                      *)
(***************************************************************************)
DefaultSize == 100

BaseDPI == 72

(***************************************************************************)
(* Characters and rationals.                                               *)
(***************************************************************************)
Digits == {"0", "1", "2", "3", "4", "5", "6", "7", "8", "9"}

Whitespace == {" "}

DigitVal(c) ==
  CASE c = "0" -> 0 [] c = "1" -> 1 [] c = "2" -> 2 [] c = "3" -> 3
    [] c = "4" -> 4 [] c = "5" -> 5 [] c = "6" -> 6 [] c = "7" -> 7
    [] c = "8" -> 8 [] c = "9" -> 9

DigitChar(k) ==
  CASE k = 0 -> "0" [] k = 1 -> "1" [] k = 2 -> "2" [] k = 3 -> "3"
    [] k = 4 -> "4" [] k = 5 -> "5" [] k = 6 -> "6" [] k = 7 -> "7"
    [] k = 8 -> "8" [] k = 9 -> "9"

Abs(k) == IF k < 0 THEN -k ELSE k

RECURSIVE Pow10(_)
Pow10(k) == IF k = 0 THEN 1 ELSE 10 * Pow10(k - 1)

Rat(n, d) == [n |-> n, d |-> d]

RatEq(a, b) == a.n * b.d = b.n * a.d

RatNeg(a) == Rat(-a.n, a.d)

RatAdd(a, b) == Rat(a.n * b.d + b.n * a.d, a.d * b.d)

RatMul(a, b) == Rat(a.n * b.n, a.d * b.d)

\* a / b for b # 0, the denominator kept positive
RatDiv(a, b) ==
  IF b.n > 0 THEN Rat(a.n * b.d, a.d * b.n) ELSE Rat(-(a.n * b.d), a.d * (-b.n))

(***************************************************************************)
(* str.replace, str.split, str.strip and float() on text.                  *)
(***************************************************************************)
RECURSIVE Replace(_, _, _)
Replace(s, from, to) ==
  IF s = <<>> THEN <<>>
  ELSE <<IF Head(s) = from THEN to ELSE Head(s)>> \o Replace(Tail(s), from, to)

\* str.split() with no argument: cut at runs of whitespace, no empty tokens
RECURSIVE SplitFrom(_, _, _)
SplitFrom(s, cur, acc) ==
  IF s = <<>> THEN (IF cur = <<>> THEN acc ELSE Append(acc, cur))
  ELSE IF Head(s) \in Whitespace
       THEN SplitFrom(Tail(s), <<>>, IF cur = <<>> THEN acc ELSE Append(acc, cur))
       ELSE SplitFrom(Tail(s), Append(cur, Head(s)), acc)

Split(s) == SplitFrom(s, <<>>, <<>>)

RECURSIVE LStrip(_)
LStrip(s) ==
  IF s # <<>> /\ Head(s) \in Whitespace THEN LStrip(Tail(s)) ELSE s

RECURSIVE RStrip(_)
RStrip(s) ==
  IF s # <<>> /\ s[Len(s)] \in Whitespace THEN RStrip(SubSeq(s, 1, Len(s) - 1)) ELSE s

Strip(s) == RStrip(LStrip(s))

RECURSIVE Filter(_, _)
Filter(s, keep) ==
  IF s = <<>> THEN <<>>
  ELSE (IF Head(s) \in keep THEN <<Head(s)>> ELSE <<>>) \o Filter(Tail(s), keep)

NotAFloat == [ok |-> FALSE, n |-> 0, d |-> 1]

RECURSIVE ScanFloat(_, _, _, _, _)
\* digits with at most one point and at least one digit, read left to right:
\* n the digits read so far as a number, frac the count of those after the point
ScanFloat(s, n, frac, dot, any) ==
  IF s = <<>> THEN (IF any THEN [ok |-> TRUE, n |-> n, d |-> Pow10(frac)] ELSE NotAFloat)
  ELSE IF Head(s) \in Digits
       THEN ScanFloat(Tail(s), 10 * n + DigitVal(Head(s)), IF dot THEN frac + 1 ELSE frac,
                      dot, TRUE)
  ELSE IF Head(s) = "." /\ ~dot THEN ScanFloat(Tail(s), n, frac, TRUE, any)
  ELSE NotAFloat

Negated(f) == [f EXCEPT !.n = -f.n]

\* float(s) for text over digits, sign, point and other printable characters
\* (no exponent, inf, nan or underscore forms): [sign] digits [. digits]
\* with at least one digit; anything else is a ValueError (ok = FALSE).
Float(s) ==
  IF s = <<>> THEN NotAFloat
  ELSE IF Head(s) = "-" THEN Negated(ScanFloat(Tail(s), 0, 0, FALSE, FALSE))
  ELSE IF Head(s) = "+" THEN ScanFloat(Tail(s), 0, 0, FALSE, FALSE)
  ELSE ScanFloat(s, 0, 0, FALSE, FALSE)

(***************************************************************************)
(* Documents.  A content text is described by what xml.etree makes of it:  *)
(* whether it is well-formed and, if so, the root's attributes (a function *)
(* from attribute names to text) and the tags of the root's children.      *)
(***************************************************************************)
\* the exceptions the methods raise, by type and message
E_InvalidSVG == "ValueError: Invalid SVG content provided to StarSVGCanvas"

E_Float == "ValueError: could not convert string to float"

E_Scale == "ValueError: scale must be greater than 0"

E_Scales == "ValueError: all scales must be greater than 0"

E_PDF == "RuntimeError: PDF export requires svglib and reportlab"

E_PNG == "RuntimeError: PNG export requires svglib and reportlab"

E_Svglib == "RuntimeError: SVG parsing requires svglib"

E_NoDrawing == "RuntimeError: Could not parse composed SVG into a drawing."

E_Svg2rlg == "svg2rlg raised"

E_DrawToFile == "drawToFile raised"

E_FileNotFound == "FileNotFoundError"

NoAttrib == [k \in {} |-> <<>>]

Doc(wf, attrib, children) == [wellFormed |-> wf, attrib |-> attrib, children |-> children]

\* dict.get: an optional text
Get(attrib, k) ==
  IF k \in DOMAIN attrib THEN [some |-> TRUE, v |-> attrib[k]]
  ELSE [some |-> FALSE, v |-> <<>>]

NoneFloat == [some |-> FALSE, n |-> 0, d |-> 1]

\* float(filtered), None on ValueError (lines 64-67)
FloatOrNone(f) == IF f.ok THEN [some |-> TRUE, n |-> f.n, d |-> f.d] ELSE NoneFloat

\* StarSVGCanvas._parse_length
_parse_length(value) ==
  IF ~value.some \/ value.v = <<>> THEN NoneFloat
  ELSE FloatOrNone(Float(Filter(Strip(value.v), Digits \cup {".", "-", "+"})))

\* Python's "x or 100.0": None and 0.0 are both falsy
OrDefault(opt) ==
  IF opt.some /\ opt.n # 0 THEN Rat(opt.n, opt.d) ELSE Rat(DefaultSize, 1)

Box(e, a, b, c, d) ==
  [err |-> e, min_x |-> a, min_y |-> b, src_width |-> c, src_height |-> d]

Zero == Rat(0, 1)

\* the width/height rule, lines 79-81
SizeFromAttributes(attrib) ==
  Box("none", Zero, Zero,
      OrDefault(_parse_length(Get(attrib, "width"))),
      OrDefault(_parse_length(Get(attrib, "height"))))

\* lines 75-77 on the four tokens converted by float()
BoxFromViewBox(attrib, v) ==
  IF \E i \in 1..4 : ~v[i].ok THEN Box(E_Float, Zero, Zero, Zero, Zero)
  ELSE IF v[3].n > 0 /\ v[4].n > 0
       THEN Box("none", Rat(v[1].n, v[1].d), Rat(v[2].n, v[2].d),
                Rat(v[3].n, v[3].d), Rat(v[4].n, v[4].d))
  ELSE SizeFromAttributes(attrib)

\* lines 73-74 on the tokens of the viewBox
BoxFromParts(attrib, parts) ==
  IF Len(parts) = 4 THEN BoxFromViewBox(attrib, [i \in 1..4 |-> Float(parts[i])])
  ELSE SizeFromAttributes(attrib)

\* StarSVGCanvas._extract_source_size on the root's attributes
_extract_source_size(attrib) ==
  IF "viewBox" \in DOMAIN attrib /\ attrib.viewBox # <<>>
  THEN BoxFromParts(attrib, Split(Replace(attrib.viewBox, ",", " ")))
  ELSE SizeFromAttributes(attrib)

(***************************************************************************)
(* Placements and the placement group.                                     *)
(***************************************************************************)
SVGPlacement(content, x, y, w, h) ==
  [content |-> content, x |-> x, y |-> y, width |-> w, height |-> h]

One == Rat(1, 1)

Translate(a, b) == [op |-> "translate", a |-> a, b |-> b]

Scale(a, b) == [op |-> "scale", a |-> a, b |-> b]

Int2Rat(k) == Rat(k, 1)

\* Transform with the scale written before the first translate
TransformScaleFirst(item, box) ==
  LET scale_x == IF box.src_width.n # 0 THEN RatDiv(Int2Rat(item.width), box.src_width) ELSE One
      scale_y == IF box.src_height.n # 0 THEN RatDiv(Int2Rat(item.height), box.src_height) ELSE One
  IN  << Scale(scale_x, scale_y),
         Translate(Int2Rat(item.x), Int2Rat(item.y)),
         Translate(RatNeg(box.min_x), RatNeg(box.min_y)) >>

\* the transform attribute, as the list of its operations in textual order
Transform(item, box) ==
  LET scale_x == IF box.src_width.n # 0 THEN RatDiv(Int2Rat(item.width), box.src_width) ELSE One
      scale_y == IF box.src_height.n # 0 THEN RatDiv(Int2Rat(item.height), box.src_height) ELSE One
  IN  << Translate(Int2Rat(item.x), Int2Rat(item.y)),
         Scale(scale_x, scale_y),
         Translate(RatNeg(box.min_x), RatNeg(box.min_y)) >>

NoElement == [tag |-> "none"]

\* lines 90-100, the root parsed and its intrinsic box extracted
GroupFromBox(item, box) ==
  IF box.err # "none" THEN [err |-> box.err, group |-> NoElement]
  ELSE [err |-> "none",
        group |-> [tag |-> "g", transform |-> Transform(item, box),
                   children |-> item.content.children]]

\* StarSVGCanvas._build_placement_group: [err, group]
_build_placement_group(item) ==
  IF ~item.content.wellFormed THEN [err |-> E_InvalidSVG, group |-> NoElement]
  ELSE GroupFromBox(item, _extract_source_size(item.content.attrib))

(***************************************************************************)
(* Python numbers given by the caller (canvas size, scale factors): an int *)
(* or a float, held in tenths.  str() prints an int as its digits and a    *)
(* float with its decimal point.                                           *)
(***************************************************************************)
PyInt(k) == [ty |-> "int", t |-> 10 * k]

PyFloat(tenths) == [ty |-> "float", t |-> tenths]

RECURSIVE NatStr(_)
NatStr(k) == IF k < 10 THEN <<DigitChar(k)>> ELSE NatStr(k \div 10) \o <<DigitChar(k % 10)>>

Str(p) ==
  LET sign == IF p.t < 0 THEN <<"-">> ELSE <<>>
      m    == Abs(p.t)
  IN  IF p.ty = "int" THEN sign \o NatStr(m \div 10)
      ELSE sign \o NatStr(m \div 10) \o <<".">> \o <<DigitChar(m % 10)>>

\* 72 * scale, in the type of scale
Times(k, p) == [ty |-> p.ty, t |-> k * p.t]

(***************************************************************************)
(* render_svg: [err, root].                                                *)
(***************************************************************************)
RECURSIVE AppendGroups(_, _)
RECURSIVE AppendGroup(_, _, _)
\* root.append(g), unless building g raised
AppendGroup(children, rest, g) ==
  IF g.err # "none" THEN [err |-> g.err, children |-> children]
  ELSE AppendGroups(Append(children, g.group), Tail(rest))

\* the loop of lines 142-143: the first placement that fails ends it
AppendGroups(children, rest) ==
  IF rest = <<>> THEN [err |-> "none", children |-> children]
  ELSE AppendGroup(children, rest, _build_placement_group(Head(rest)))

Rect(fill) == [tag |-> "rect", width |-> "100%", height |-> "100%", fill |-> fill]

\* the root element of lines 127-134 around the children
Root(w, h, body) ==
  IF body.err # "none" THEN [err |-> body.err, root |-> NoElement]
  ELSE [err |-> "none",
        root |-> [tag |-> "svg", width |-> Str(w), height |-> Str(h),
                  viewBox |-> <<"0", " ", "0", " ">> \o Str(w) \o <<" ">> \o Str(h),
                  children |-> body.children]]

render_svg(w, h, bg, its) == Root(w, h, AppendGroups(<<Rect(bg)>>, its))

(***************************************************************************)
(* One call of an export method is followed through a call record: the     *)
(* exception raised (or "none"), the value returned, the temporary files   *)
(* that exist, and the log of what the call did to its surroundings.       *)
(***************************************************************************)
Begin == [err |-> "none", ret |-> <<>>, temps |-> {}, log |-> <<>>]

Raise(cs, e) == [cs EXCEPT !.err = e, !.ret = <<>>]

Logged(cs, e) == [cs EXCEPT !.log = Append(@, e)]

Path(dir, name) == [dir |-> dir, name |-> name]

RECURSIVE CountEv(_, _)
CountEv(log, ev) ==
  IF log = <<>> THEN 0
  ELSE (IF Head(log).ev = ev THEN 1 ELSE 0) + CountEv(Tail(log), ev)

\* what the external renderer does at its k-th use within a call
Outcome(plan, k) == IF plan.failAt = k THEN plan.kind ELSE "ok"

Canvas(w, h, bg, its) == [width |-> w, height |-> h, background |-> bg, items |-> its]

\* leaving the with-block of lines 162-165: the temporary file is deleted
CloseTemp(cs, tmp) ==
  Logged([cs EXCEPT !.temps = @ \ {tmp}], [ev |-> "tmp_delete", tmp |-> tmp])

\* the with-block of lines 162-165 with the file left behind when svg2rlg raises
WithTempFileKeepOnError(cs, tmp, o) ==
  LET opened == Logged([cs EXCEPT !.temps = @ \cup {tmp}], [ev |-> "tmp_create", tmp |-> tmp])
      parsed == Logged(opened, [ev |-> "svg2rlg", tmp |-> tmp, exists |-> tmp \in opened.temps])
      closed == CloseTemp(parsed, tmp)
  IN  IF o = "svg2rlg_raise" THEN Raise(parsed, E_Svg2rlg)
      ELSE IF o = "svg2rlg_none" THEN Raise(closed, E_NoDrawing)
      ELSE closed

\* lines 162-168: the temporary file written, parsed by svg2rlg and deleted
WithTempFile(cs, tmp, o) ==
  LET opened == Logged([cs EXCEPT !.temps = @ \cup {tmp}], [ev |-> "tmp_create", tmp |-> tmp])
      parsed == Logged(opened, [ev |-> "svg2rlg", tmp |-> tmp, exists |-> tmp \in opened.temps])
      closed == CloseTemp(parsed, tmp)
  IN  IF o = "svg2rlg_raise" THEN Raise(closed, E_Svg2rlg)
      ELSE IF o = "svg2rlg_none" THEN Raise(closed, E_NoDrawing)
      ELSE closed

\* lines 155-169, the canvas composed
ParseComposed(cs, env, composed) ==
  IF composed.err # "none" THEN Raise(cs, composed.err)
  ELSE IF ~env.modules.svglib THEN Raise(cs, E_Svglib)
  ELSE WithTempFile(cs, CountEv(cs.log, "tmp_create") + 1,
                    Outcome(env.renderer, CountEv(cs.log, "svg2rlg") + 1))

\* StarSVGCanvas._render_drawing
_render_drawing(cs, c, env) ==
  ParseComposed(cs, env, render_svg(c.width, c.height, c.background, c.items))

\* renderPDF.drawToFile / renderPM.drawToFile on the drawing just parsed
DrawToFile(cs, env, path, fmt, dpi) ==
  LET o == Outcome(env.renderer, CountEv(cs.log, "svg2rlg"))
      e == [ev |-> "drawToFile", path |-> path, fmt |-> fmt, dpi |-> dpi]
  IN  IF o = "draw_raise" THEN Raise(Logged(cs, e), E_DrawToFile)
      ELSE [Logged(cs, e) EXCEPT !.ret = <<path>>]

\* drawToFile once _render_drawing has returned, nothing if it raised
Draw(drawing, env, path, fmt, dpi) ==
  IF drawing.err # "none" THEN drawing ELSE DrawToFile(drawing, env, path, fmt, dpi)

NoDpi == PyInt(0)

\* save_pdf composing the drawing before it looks for the modules
LoadPdfThenDraw(drawing, env, output_path) ==
  IF drawing.err # "none" THEN drawing
  ELSE IF ~(env.modules.renderPDF /\ env.modules.svglib) THEN Raise(drawing, E_PDF)
  ELSE DrawToFile(drawing, env, output_path, "PDF", NoDpi)

save_pdf_ComposeFirst(cs, c, env, output_path) ==
  LoadPdfThenDraw(_render_drawing(cs, c, env), env, output_path)

\* StarSVGCanvas.save_pdf
save_pdf(cs, c, env, output_path) ==
  IF ~(env.modules.renderPDF /\ env.modules.svglib) THEN Raise(cs, E_PDF)
  ELSE Draw(_render_drawing(cs, c, env), env, output_path, "PDF", NoDpi)

\* save_png validating the scale only when it computes the resolution
ValidateThenDraw(drawing, env, output_path, scale) ==
  IF drawing.err # "none" THEN drawing
  ELSE IF scale.t <= 0 THEN Raise(drawing, E_Scale)
  ELSE DrawToFile(drawing, env, output_path, "PNG", Times(BaseDPI, scale))

save_png_LateValidation(cs, c, env, output_path, scale) ==
  IF ~(env.modules.renderPM /\ env.modules.svglib) THEN Raise(cs, E_PNG)
  ELSE ValidateThenDraw(_render_drawing(cs, c, env), env, output_path, scale)

\* StarSVGCanvas.save_png
save_png(cs, c, env, output_path, scale) ==
  IF scale.t <= 0 THEN Raise(cs, E_Scale)
  ELSE IF ~(env.modules.renderPM /\ env.modules.svglib) THEN Raise(cs, E_PNG)
  ELSE Draw(_render_drawing(cs, c, env), env, output_path, "PNG", Times(BaseDPI, scale))

\* the label with its decimal point kept
ScaleLabelKeepPoint(scale) == Str(scale)

\* f"{base_name}@{scale_label}x.png" under the output directory
ScaleLabel(scale) == Replace(Str(scale), ".", "_")

PngName(base_name, scale) == <<base_name, "@">> \o ScaleLabel(scale) \o <<"x.png">>

RECURSIVE ScalesLoop(_, _, _, _, _, _, _)

\* line 201 going on to the next scale when save_png raised
AppendGeneratedSkipFailed(one, c, env, directory, base_name, rest, generated) ==
  IF one.err # "none"
  THEN ScalesLoop([one EXCEPT !.err = "none"], c, env, directory, base_name, Tail(rest), generated)
  ELSE ScalesLoop(one, c, env, directory, base_name, Tail(rest), generated \o one.ret)

\* line 201: generated.append(...) of what save_png returned, unless it raised
AppendGenerated(one, c, env, directory, base_name, rest, generated) ==
  IF one.err # "none" THEN one
  ELSE ScalesLoop(one, c, env, directory, base_name, Tail(rest), generated \o one.ret)

\* the loop of lines 196-201
ScalesLoop(cs, c, env, directory, base_name, rest, generated) ==
  IF rest = <<>> THEN [cs EXCEPT !.ret = generated]
  ELSE IF Head(rest).t <= 0 THEN Raise(cs, E_Scales)
  ELSE AppendGenerated(save_png(cs, c, env, Path(directory, PngName(base_name, Head(rest))),
                                Head(rest)),
                       c, env, directory, base_name, rest, generated)

\* StarSVGCanvas.save_png_resolutions
save_png_resolutions(cs, c, env, output_dir, base_name, scales) ==
  ScalesLoop(Logged(cs, [ev |-> "mkdir", path |-> output_dir]), c, env,
             output_dir, base_name, scales, <<>>)

\* line 150: write_text of the composed document
WriteText(cs, composed, output_path) ==
  IF composed.err # "none" THEN Raise(cs, composed.err)
  ELSE [Logged(cs, [ev |-> "write_text", path |-> output_path]) EXCEPT !.ret = <<output_path>>]

\* StarSVGCanvas.save_svg
save_svg(cs, c, output_path) ==
  WriteText(cs, render_svg(c.width, c.height, c.background, c.items), output_path)

(***************************************************************************)
(* Inputs.                                                                 *)
(***************************************************************************)
T_0_0_20_20 == <<"0", " ", "0", " ", "2", "0", " ", "2", "0">>

T_0_0_20px_20px == <<"0", " ", "0", " ", "2", "0", "p", "x", " ", "2", "0", "p", "x">>

T_12 == <<"1", "2">>

\* <svg viewBox="0 0 20 20"><circle/></svg>
DocViewBox == Doc(TRUE, [viewBox |-> T_0_0_20_20], <<"circle">>)

\* not-valid-svg
DocInvalid == Doc(FALSE, NoAttrib, <<>>)

\* <svg viewBox="0 0 20px 20px"><path/></svg>
DocUnitViewBox == Doc(TRUE, [viewBox |-> T_0_0_20px_20px], <<"path">>)

\* the calls of add_svg_content: content and target rectangle
Placements ==
  { SVGPlacement(DocViewBox, 10, 20, 120, 140),
    SVGPlacement(DocInvalid, 0, 0, 100, 100),
    SVGPlacement(DocUnitViewBox, 10, 20, 120, 140) }

\* the files add_svg_file can read; any other path does not exist
SvgFiles == [first |-> DocViewBox]

\* the calls of add_svg_file: path and target rectangle
FilePlacements ==
  { SVGPlacement("first", 10, 20, 120, 140),
    SVGPlacement("missing", 0, 0, 100, 100) }

CanvasConfigs == { Canvas(PyInt(800), PyInt(600), "white", <<>>) }

Mods(pdf, pm, svglib) == [renderPDF |-> pdf, renderPM |-> pm, svglib |-> svglib]

\* what the external renderer does in a run: nothing wrong, or a failure at
\* its first or second use within a call
NeverFails == [failAt |-> 0, kind |-> "ok"]

RendererPlans ==
  {NeverFails} \cup [failAt : {1, 2}, kind : {"svg2rlg_raise", "svg2rlg_none", "draw_raise"}]

\* the modules that can be imported and the renderer behind them; the renderer
\* is only ever used once (by save_pdf) when renderPM is missing, and never
\* when svglib is
Environments ==
  [modules : {Mods(TRUE, TRUE, TRUE)}, renderer : RendererPlans]
    \cup [modules : {Mods(TRUE, FALSE, TRUE)},
          renderer : {p \in RendererPlans : p.failAt <= 1}]
    \cup [modules : {Mods(FALSE, FALSE, FALSE)}, renderer : {NeverFails}]

\* scale factors given to save_png and, in sequences, to save_png_resolutions
ScaleValues == {PyInt(0), PyInt(1), PyInt(3), PyFloat(15), PyFloat(-5)}

BatchScaleValues == {PyInt(0), PyInt(1), PyInt(3), PyFloat(15)}

RECURSIVE SeqsUpTo(_, _)
SeqsUpTo(S, k) ==
  IF k = 0 THEN {<<>>}
  ELSE LET shorter == SeqsUpTo(S, k - 1)
       IN  shorter \cup {Append(q, x) : q \in {r \in shorter : Len(r) = k - 1}, x \in S}

Injective(q) == \A i, j \in 1..Len(q) : q[i] = q[j] => i = j

\* the scale collections given to save_png_resolutions: every sequence of at
\* most two scales, the longer ones that repeat no scale, and two with a
\* negative scale
BatchScales ==
  SeqsUpTo(BatchScaleValues, 2)
    \cup {q \in SeqsUpTo(BatchScaleValues, MaxScales) : Injective(q)}
    \cup { <<PyFloat(-5)>>, <<PyInt(1), PyFloat(-5)>> }

NoProbe == [fn |-> "none"]

NoCall == [op |-> "none", args |-> <<>>, err |-> "none", ret |-> <<>>, log |-> <<>>]

Called(op, args, cs) ==
  [op |-> op, args |-> args, err |-> cs.err, ret |-> cs.ret, log |-> cs.log]

Self == Canvas(width, height, background, items)

Env == [modules |-> modules, renderer |-> renderer]

(***************************************************************************)
(* The canvas and its operations.                                          *)
(***************************************************************************)
Init ==
  /\ \E c \in CanvasConfigs :
       /\ width = c.width
       /\ height = c.height
       /\ background = c.background
  /\ items = <<>>
  /\ \E e \in Environments :
       /\ modules = e.modules
       /\ renderer = e.renderer
  /\ tempFiles = {}
  /\ last = NoCall
  /\ probe = NoProbe
  /\ out = NoProbe

Finish(op, args, cs) ==
  /\ last' = Called(op, args, cs)
  /\ tempFiles' = tempFiles \cup cs.temps
  /\ UNCHANGED <<width, height, background, modules, renderer, probe, out>>

\* add_svg_content, lines 47-56
AddSvgContent ==
  \E p \in Placements :
    /\ Len(items) < MaxItems
    /\ items' = Append(items, p)
    /\ Finish("add_svg_content", <<p>>, Begin)

\* add_svg_file, lines 34-45
AddSvgFile ==
  \E f \in FilePlacements :
    /\ Len(items) < MaxItems
    /\ IF f.content \in DOMAIN SvgFiles
       THEN /\ items' = Append(items, [f EXCEPT !.content = SvgFiles[f.content]])
            /\ Finish("add_svg_file", <<f>>, Begin)
       ELSE /\ items' = items
            /\ Finish("add_svg_file", <<f>>, Raise(Begin, E_FileNotFound))

\* what render_svg hands back to its caller
Rendered(r) ==
  [Begin EXCEPT !.err = r.err, !.ret = IF r.err = "none" THEN <<r.root>> ELSE <<>>]

RenderSvg ==
  /\ Finish("render_svg", <<>>, Rendered(render_svg(width, height, background, items)))
  /\ UNCHANGED items

SaveSvg ==
  /\ Finish("save_svg", <<>>, save_svg(Begin, Self, Path("out", <<"result.svg">>)))
  /\ UNCHANGED items

SavePdf ==
  /\ Finish("save_pdf", <<>>, save_pdf(Begin, Self, Env, Path("out", <<"result.pdf">>)))
  /\ UNCHANGED items

SavePng ==
  \E scale \in ScaleValues :
    /\ Finish("save_png", <<scale>>,
              save_png(Begin, Self, Env, Path("out", <<"single.png">>), scale))
    /\ UNCHANGED items

SavePngResolutions ==
  \E scales \in BatchScales :
    /\ Finish("save_png_resolutions", scales,
              save_png_resolutions(Begin, Self, Env, "multi", "mapa", scales))
    /\ UNCHANGED items

Next ==
  \/ AddSvgContent
  \/ AddSvgFile
  \/ RenderSvg
  \/ SaveSvg
  \/ SavePdf
  \/ SavePng
  \/ SavePngResolutions

Spec == Init /\ [][Next]_vars

(***************************************************************************)
(* The coordinate functions on their own: a root element's attributes and  *)
(* a target rectangle are drawn at the start, and the functions applied.   *)
(***************************************************************************)
RECURSIVE Join(_, _)
Join(tokens, sep) ==
  IF Len(tokens) = 1 THEN Head(tokens)
  ELSE Head(tokens) \o sep \o Join(Tail(tokens), sep)

MinTokens == { <<"0">>, <<"-", "5">> }

SizeTokens ==
  { <<"2", "0">>, <<"0">>, <<"-", "5">>, <<"0", ".", "5">>, <<"a">>, <<"2", "0", "p", "x">> }

Separators == { <<" ">>, <<",">>, <<",", " ">> }

ViewBoxTexts ==
  { Join(<<a, <<"0">>, c, d>>, sep) : a \in MinTokens, c \in SizeTokens, d \in SizeTokens,
                                      sep \in Separators }
    \cup { <<>>, <<" ">>,
           Join(<<<<"0">>, <<"0">>, <<"2", "0">>>>, <<" ">>),
           Join(<<<<"0">>, <<"0">>, <<"2", "0">>, <<"2", "0">>, <<"2", "0">>>>, <<" ">>),
           Join(<<<<"a">>, <<"0">>, <<"2", "0">>, <<"2", "0">>>>, <<" ">>) }

WidthTexts ==
  { <<>>, T_12, <<"1", "2", "p", "x">>, <<"0">>, <<"-", "3">>, <<"a", "b", "c">>,
    <<"1", "-", "2">>, <<" ", "2", ".", "5", "e", "m">> }

HeightTexts == { T_12, <<"0">>, <<"a", "b", "c">> }

\* every way of giving or omitting the three attributes
Attribs ==
  LET vbs == {[viewBox |-> v] : v \in ViewBoxTexts} \cup {NoAttrib}
      ws  == {[width |-> v] : v \in WidthTexts} \cup {NoAttrib}
      hs  == {[height |-> v] : v \in HeightTexts} \cup {NoAttrib}
  IN  {a @@ b @@ c : a \in vbs, b \in ws, c \in hs}

Rects == { <<10, 20, 120, 140>>, <<30, 40, 220, 240>> }

InitPure ==
  /\ \E c \in CanvasConfigs :
       /\ width = c.width
       /\ height = c.height
       /\ background = c.background
  /\ items = <<>>
  /\ modules = Mods(TRUE, TRUE, TRUE)
  /\ renderer = NeverFails
  /\ tempFiles = {}
  /\ last = NoCall
  /\ \E a \in Attribs, r \in Rects :
       probe = SVGPlacement(Doc(TRUE, a, <<"circle">>), r[1], r[2], r[3], r[4])
  /\ out = NoProbe

ParseLength ==
  /\ out' = [fn |-> "_parse_length",
             res |-> _parse_length(Get(probe.content.attrib, "width"))]
  /\ UNCHANGED <<canvasVars, probe>>

ExtractSourceSize ==
  /\ out' = [fn |-> "_extract_source_size",
             res |-> _extract_source_size(probe.content.attrib)]
  /\ UNCHANGED <<canvasVars, probe>>

BuildPlacementGroup ==
  /\ out' = [fn |-> "_build_placement_group", res |-> _build_placement_group(probe)]
  /\ UNCHANGED <<canvasVars, probe>>

NextPure ==
  \/ ParseLength
  \/ ExtractSourceSize
  \/ BuildPlacementGroup

SpecPure == InitPure /\ [][NextPure]_vars

(***************************************************************************)
(* Properties.                                                             *)
(***************************************************************************)
AllWellFormed == \A i \in 1..Len(items) : items[i].content.wellFormed

RendererEvents == CountEv(last.log, "svg2rlg") + CountEv(last.log, "drawToFile")

\* C1: after any calls with well-formed content, render_svg returns a root
\* sized width/height with viewBox "0 0 width height" whose children are the
\* background rectangle followed by one group per placement, in insertion
\* order (the rectangle alone when there is no placement).
C1_RenderStructure ==
  (last.op = "render_svg" /\ AllWellFormed) =>
    /\ last.err = "none"
    /\ Len(last.ret) = 1
    /\ LET root == last.ret[1]
       IN  /\ root.tag = "svg"
           /\ root.width = Str(width)
           /\ root.height = Str(height)
           /\ root.viewBox = <<"0", " ", "0", " ">> \o Str(width) \o <<" ">> \o Str(height)
           /\ Len(root.children) = 1 + Len(items)
           /\ root.children[1] = Rect(background)
           /\ \A i \in 1..Len(items) :
                /\ root.children[i + 1].tag = "g"
                /\ root.children[i + 1].children = items[i].content.children

\* C2: add_svg_content never fails, and render_svg raises the invalid-input
\* error (and returns no document) whenever some placement's content is not
\* well-formed, wherever that placement stands in the sequence.
C2_InvalidRaisedAtRender ==
  /\ (last.op = "add_svg_content" => last.err = "none")
  /\ (last.op = "render_svg" /\ ~AllWellFormed) =>
       (last.err = E_InvalidSVG /\ last.ret = <<>>)

RequestedScales ==
  IF last.op = "save_png" THEN last.args
  ELSE IF last.op = "save_png_resolutions" THEN last.args
  ELSE <<>>

\* C3 as stated: a raster export, single or batch, given a scale <= 0 raises
\* the validation error without the renderer having been invoked at any
\* point of the call.
C3_NoRendererOnBadScale ==
  (\E k \in 1..Len(RequestedScales) : RequestedScales[k].t <= 0) =>
    (last.err \in {E_Scale, E_Scales} /\ RendererEvents = 0)

RenderErr == render_svg(width, height, background, items).err

PngAvailable == modules.renderPM /\ modules.svglib

\* whether the export of the k-th scale of a batch fails, from the inputs
FailsAt(scales, k) ==
  \/ scales[k].t <= 0
  \/ ~PngAvailable
  \/ RenderErr # "none"
  \/ renderer.failAt = k

FirstFailing(scales) ==
  IF \E k \in 1..Len(scales) : FailsAt(scales, k)
  THEN CHOOSE k \in 1..Len(scales) :
         FailsAt(scales, k) /\ \A j \in 1..(k - 1) : ~FailsAt(scales, j)
  ELSE 0

FirstNonPositive(scales) ==
  IF \E k \in 1..Len(scales) : scales[k].t <= 0
  THEN CHOOSE k \in 1..Len(scales) :
         scales[k].t <= 0 /\ \A j \in 1..(k - 1) : scales[j].t > 0
  ELSE 0

\* C3 amended: save_png with a scale <= 0 raises the validation error without
\* any renderer invocation; save_png_resolutions whose first scale <= 0 is at
\* index i always raises, raises the validation error exactly when the exports
\* of all earlier scales succeeded, and invokes the renderer only for scales
\* before index i.
C3_ValidationBeforeRenderer ==
  /\ (last.op = "save_png" /\ last.args[1].t <= 0) =>
       (last.err = E_Scale /\ last.log = <<>>)
  /\ (last.op = "save_png_resolutions" /\ FirstNonPositive(last.args) # 0) =>
       LET i == FirstNonPositive(last.args)
       IN  /\ last.err # "none"
           /\ last.ret = <<>>
           /\ (last.err = E_Scales) <=> (FirstFailing(last.args) = i)
           /\ CountEv(last.log, "svg2rlg") <= i - 1
           /\ CountEv(last.log, "drawToFile") <= i - 1

C3_Witness ==
  /\ last.op = "save_png_resolutions"
  /\ last.args = <<PyInt(1), PyInt(0)>>
  /\ last.err = E_Scales
  /\ CountEv(last.log, "drawToFile") = 1

\* the label of a scale in a file name and its resolution, written out
ExpectedLabel(scale) ==
  CASE scale = PyInt(1) -> <<"1">>
    [] scale = PyInt(3) -> <<"3">>
    [] scale = PyFloat(15) -> <<"1", "_", "5">>

ExpectedDpi(scale) ==
  CASE scale = PyInt(1) -> PyInt(72)
    [] scale = PyInt(3) -> PyInt(216)
    [] scale = PyFloat(15) -> PyFloat(1080)

ExpectedPath(scale) == Path("multi", <<"mapa", "@">> \o ExpectedLabel(scale) \o <<"x.png">>)

RECURSIVE Draws(_)
\* the drawToFile invocations of a log, in order
Draws(log) ==
  IF log = <<>> THEN <<>>
  ELSE (IF Head(log).ev = "drawToFile" THEN <<Head(log)>> ELSE <<>>) \o Draws(Tail(log))

ExpectedError(scales, i) ==
  IF scales[i].t <= 0 THEN E_Scales
  ELSE IF ~PngAvailable THEN E_PNG
  ELSE IF RenderErr # "none" THEN RenderErr
  ELSE CASE renderer.kind = "svg2rlg_raise" -> E_Svg2rlg
         [] renderer.kind = "svg2rlg_none" -> E_NoDrawing
         [] renderer.kind = "draw_raise" -> E_DrawToFile

FailedInRenderer(scales, i) ==
  scales[i].t > 0 /\ PngAvailable /\ RenderErr = "none"

\* C4: when the scale at index i is the first that is invalid or whose render
\* fails, save_png_resolutions raises that error, returns no list, and invokes
\* the renderer and writes output for no scale after index i.
C4_BatchAbortsAtFirstFailure ==
  (last.op = "save_png_resolutions" /\ FirstFailing(last.args) # 0) =>
    LET i     == FirstFailing(last.args)
        draws == Draws(last.log)
    IN  /\ last.err = ExpectedError(last.args, i)
        /\ last.ret = <<>>
        /\ CountEv(last.log, "svg2rlg") = (IF FailedInRenderer(last.args, i) THEN i ELSE i - 1)
        /\ CountEv(last.log, "tmp_create") = CountEv(last.log, "svg2rlg")
        /\ Len(draws) = (IF last.err = E_DrawToFile THEN i ELSE i - 1)
        /\ \A k \in 1..Len(draws) : draws[k].path = ExpectedPath(last.args[k])

C4_Witness ==
  /\ last.op = "save_png_resolutions"
  /\ Len(last.args) = 2
  /\ FirstFailing(last.args) = 1
  /\ last.err = E_NoDrawing
  /\ CountEv(last.log, "svg2rlg") = 1
  /\ Draws(last.log) = <<>>

AllPositive(scales) == \A k \in 1..Len(scales) : scales[k].t > 0

\* C5: for strictly positive scales save_png_resolutions returns one path per
\* scale in input order, <output_dir>/{base_name}@{scale}x.png with the
\* decimal point replaced by an underscore, and drawToFile is invoked once
\* per scale in that order with resolution 72 x scale.
C5_BatchPathsAndResolutions ==
  (last.op = "save_png_resolutions" /\ AllPositive(last.args)) =>
    /\ (last.err = "none") <=> (FirstFailing(last.args) = 0)
    /\ last.err = "none" =>
         LET draws == Draws(last.log)
         IN  /\ Len(last.ret) = Len(last.args)
             /\ Len(draws) = Len(last.args)
             /\ \A k \in 1..Len(last.args) :
                  /\ last.ret[k] = ExpectedPath(last.args[k])
                  /\ draws[k].path = ExpectedPath(last.args[k])
                  /\ draws[k].fmt = "PNG"
                  /\ draws[k].dpi = ExpectedDpi(last.args[k])

C5_Witness ==
  /\ last.op = "save_png_resolutions"
  /\ last.args = <<PyInt(1), PyInt(3)>>
  /\ last.err = "none"
  /\ last.ret = << Path("multi", <<"mapa", "@", "1", "x.png">>),
                   Path("multi", <<"mapa", "@", "3", "x.png">>) >>
  /\ Draws(last.log)[1].dpi = PyInt(72)
  /\ Draws(last.log)[2].dpi = PyInt(216)

\* C6: with the renderer modules unavailable save_pdf raises the
\* missing-dependency error naming PDF export and save_png (positive scale)
\* the one naming PNG export, before the canvas is composed: no temporary
\* file, no renderer invocation, no output.
C6_MissingDependencyFirst ==
  /\ (last.op = "save_pdf" /\ ~(modules.renderPDF /\ modules.svglib)) =>
       (last.err = E_PDF /\ last.log = <<>> /\ last.ret = <<>>)
  /\ (last.op = "save_png" /\ last.args[1].t > 0 /\ ~PngAvailable) =>
       (last.err = E_PNG /\ last.log = <<>> /\ last.ret = <<>>)

C6_Witness ==
  /\ last.op = "save_pdf"
  /\ modules = Mods(FALSE, FALSE, FALSE)
  /\ items # <<>>
  /\ ~AllWellFormed
  /\ last.err = E_PDF

\* C10: the temporary file handed to the renderer is created, read and
\* deleted within one export call: after the call, on every exit path, no
\* temporary file is left, and svg2rlg reads the file only while it exists.
C10_TempFileScoped ==
  /\ tempFiles = {}
  /\ \A j \in 1..Len(last.log) :
       /\ last.log[j].ev = "svg2rlg" =>
            /\ last.log[j].exists
            /\ last.log[j - 1] = [ev |-> "tmp_create", tmp |-> last.log[j].tmp]
       /\ last.log[j].ev = "tmp_create" =>
            /\ j + 2 <= Len(last.log)
            /\ last.log[j + 2] = [ev |-> "tmp_delete", tmp |-> last.log[j].tmp]
       /\ last.log[j].ev = "drawToFile" =>
            last.log[j - 1].ev = "tmp_delete"

C10_Witness ==
  /\ last.op = "save_png_resolutions"
  /\ last.err = E_Svg2rlg
  /\ CountEv(last.log, "tmp_create") = 2
  /\ CountEv(last.log, "tmp_delete") = 2
  /\ tempFiles = {}

ViewBoxParts(attrib) == Split(Replace(Get(attrib, "viewBox").v, ",", " "))

\* a viewBox of four numeric tokens with positive width and height
UsableViewBox(attrib) ==
  /\ "viewBox" \in DOMAIN attrib
  /\ Len(ViewBoxParts(attrib)) = 4
  /\ \A i \in 1..4 : Float(ViewBoxParts(attrib)[i]).ok
  /\ Float(ViewBoxParts(attrib)[3]).n > 0
  /\ Float(ViewBoxParts(attrib)[4]).n > 0

\* C7: extraction uses the viewBox exactly when it is usable, whatever the
\* width/height attributes say; in every other case (absent, empty, token
\* count other than four, non-numeric token, width or height <= 0) it does
\* not fail and yields the box of the width/height rule.
C7_ViewBoxSelection ==
  out.fn = "_extract_source_size" =>
    LET attrib == probe.content.attrib
        v      == [i \in 1..4 |-> Float(ViewBoxParts(attrib)[i])]
    IN  IF UsableViewBox(attrib)
        THEN /\ out.res.err = "none"
             /\ RatEq(out.res.min_x, v[1])
             /\ RatEq(out.res.min_y, v[2])
             /\ RatEq(out.res.src_width, v[3])
             /\ RatEq(out.res.src_height, v[4])
        ELSE out.res = SizeFromAttributes(attrib)

\* the parsed value whenever there is one, 100 otherwise
ParsedOrDefault(opt) == IF opt.some THEN Rat(opt.n, opt.d) ELSE Rat(100, 1)

\* C8: without a usable viewBox the box is (0, 0, W, H), W being the value
\* parsed from the width attribute whenever present and parseable (0 and
\* negative values included) and 100 only otherwise, H likewise from height.
C8_WidthHeightRule ==
  (out.fn = "_extract_source_size" /\ ~UsableViewBox(probe.content.attrib)
     /\ out.res.err = "none") =>
    LET attrib == probe.content.attrib
    IN  /\ out.res.min_x = Zero
        /\ out.res.min_y = Zero
        /\ out.res.src_width = ParsedOrDefault(_parse_length(Get(attrib, "width")))
        /\ out.res.src_height = ParsedOrDefault(_parse_length(Get(attrib, "height")))

ApplyOp(t, p) ==
  IF t.op = "translate" THEN <<RatAdd(p[1], t.a), RatAdd(p[2], t.b)>>
  ELSE <<RatMul(p[1], t.a), RatMul(p[2], t.b)>>

RECURSIVE ApplyTransform(_, _)
\* a transform list acts on a point from its last operation to its first
ApplyTransform(ts, p) ==
  IF ts = <<>> THEN p ELSE ApplyOp(Head(ts), ApplyTransform(Tail(ts), p))

PointEq(p, q) == RatEq(p[1], q[1]) /\ RatEq(p[2], q[2])

\* C9: the group's transform is translate(x, y), scale(scaleX, scaleY),
\* translate(-minX, -minY) in that order, scaleX = width / srcW when srcW is
\* not 0 and 1.0 otherwise (scaleY likewise); with srcW and srcH non-zero it
\* maps (minX, minY) to (x, y) and (minX + srcW, minY + srcH) to
\* (x + width, y + height).
C9_TransformMapsBoxToRect ==
  (out.fn = "_build_placement_group" /\ out.res.err = "none") =>
    LET box == _extract_source_size(probe.content.attrib)
        t   == out.res.group.transform
        tl  == <<box.min_x, box.min_y>>
        br  == <<RatAdd(box.min_x, box.src_width), RatAdd(box.min_y, box.src_height)>>
    IN  /\ Len(t) = 3
        /\ t[1].op = "translate" /\ t[2].op = "scale" /\ t[3].op = "translate"
        /\ PointEq(<<t[1].a, t[1].b>>, <<Int2Rat(probe.x), Int2Rat(probe.y)>>)
        /\ PointEq(<<t[3].a, t[3].b>>, <<RatNeg(box.min_x), RatNeg(box.min_y)>>)
        /\ IF box.src_width.n # 0
           THEN RatEq(RatMul(t[2].a, box.src_width), Int2Rat(probe.width))
           ELSE RatEq(t[2].a, One)
        /\ IF box.src_height.n # 0
           THEN RatEq(RatMul(t[2].b, box.src_height), Int2Rat(probe.height))
           ELSE RatEq(t[2].b, One)
        /\ (box.src_width.n # 0 /\ box.src_height.n # 0) =>
             /\ PointEq(ApplyTransform(t, tl), <<Int2Rat(probe.x), Int2Rat(probe.y)>>)
             /\ PointEq(ApplyTransform(t, br),
                        <<Int2Rat(probe.x + probe.width), Int2Rat(probe.y + probe.height)>>)

C9_Witness ==
  /\ out.fn = "_build_placement_group"
  /\ out.res.err = "none"
  /\ probe.content.attrib = [viewBox |-> T_0_0_20_20]
  /\ <<probe.x, probe.y, probe.width, probe.height>> = <<10, 20, 120, 140>>
  /\ RatEq(out.res.group.transform[2].a, Rat(6, 1))
  /\ RatEq(out.res.group.transform[2].b, Rat(7, 1))
  /\ PointEq(ApplyTransform(out.res.group.transform, <<Rat(20, 1), Rat(20, 1)>>),
             <<Rat(130, 1), Rat(160, 1)>>)

====
